---- MODULE Spec2Model ----
\* A model of scripts/deploy.mjs: one run of main() (and a repeated run with
\* the same inputs) over an in-memory file system.  Paths are sequences of
\* names starting at the file-system root; a file system is a function from
\* the real paths that exist to their nodes.
EXTENDS Integers, Sequences, FiniteSets, TLC

\* ------------------------------------------------------------------ bounds

\* Symbolic links the kernel follows in one lookup before it reports ELOOP.
MaxSymlinks == 4

\* Invocations of the script in one behaviour (the same arguments each time).
MaxRuns == 2

\* ------------------------------------------------------------- file system

\* A node is a short sequence: <<"dir">>, <<"file", content>>, or a symbolic
\* link <<"link", name, ...>> whose text is the path after the first element,
\* taken from the root, or <<"rlink", name, ...>>, taken from the link's own
\* directory.
Dir == <<"dir">>

File(c) == <<"file", c>>

Link(d, r) == <<IF r THEN "rlink" ELSE "link">> \o d

Kind(n) == IF n[1] = "rlink" THEN "link" ELSE n[1]

Content(n) == n[2]

Dest(n) == Tail(n)

IsRel(n) == n[1] = "rlink"

Ok(f) == [fs |-> f, err |-> ""]

Fail(f, e) == [fs |-> f, err |-> e]

Parent(p) == IF p = <<>> THEN <<>> ELSE SubSeq(p, 1, Len(p) - 1)

IsPrefix(a, b) == Len(a) <= Len(b) /\ SubSeq(b, 1, Len(a)) = a

Exists(fs, p) == p = <<>> \/ p \in DOMAIN fs

KindAt(fs, p) == IF p = <<>> THEN "dir" ELSE Kind(fs[p])

\* path.resolve / path.join on an absolute path: "." and ".." are removed
\* lexically, symbolic links are not looked at.
RECURSIVE NormInto(_, _)
NormInto(acc, rest) ==
    IF rest = <<>> THEN acc
    ELSE IF Head(rest) = ".." THEN NormInto(Parent(acc), Tail(rest))
    ELSE IF Head(rest) = "." THEN NormInto(acc, Tail(rest))
    ELSE NormInto(Append(acc, Head(rest)), Tail(rest))

PathResolve(p) == NormInto(<<>>, p)

PathJoin(a, b) == NormInto(<<>>, a \o b)

\* The kernel's path lookup.  cur is a real directory, rest the names still to
\* look up.  The answer is an error, or the real place of the last name (which
\* may not exist there).  A directory in ns cannot be searched (EACCES).
RECURSIVE Walk(_, _, _, _, _, _)
Walk(fs, ns, cur, rest, followLast, fuel) ==
    IF rest = <<>> THEN [err |-> "", path |-> cur]
    ELSE IF cur \in ns THEN [err |-> "EACCES", path |-> cur]
    ELSE IF Head(rest) = "." THEN Walk(fs, ns, cur, Tail(rest), followLast, fuel)
    ELSE IF Head(rest) = ".."
         THEN Walk(fs, ns, Parent(cur), Tail(rest), followLast, fuel)
    ELSE LET nxt == Append(cur, Head(rest))
             tl  == Tail(rest)
         IN  IF nxt \notin DOMAIN fs
             THEN IF tl = <<>> THEN [err |-> "", path |-> nxt]
                  ELSE [err |-> "ENOENT", path |-> nxt]
             ELSE IF Kind(fs[nxt]) = "dir"
                  THEN Walk(fs, ns, nxt, tl, followLast, fuel)
             ELSE IF Kind(fs[nxt]) = "file"
                  THEN IF tl = <<>> THEN [err |-> "", path |-> nxt]
                       ELSE [err |-> "ENOTDIR", path |-> nxt]
             ELSE IF tl = <<>> /\ ~followLast
                  THEN [err |-> "", path |-> nxt]
             ELSE IF fuel = 0 THEN [err |-> "ELOOP", path |-> nxt]
             ELSE Walk(fs, ns, IF IsRel(fs[nxt]) THEN cur ELSE <<>>,
                       Dest(fs[nxt]) \o tl, followLast, fuel - 1)

\* stat(2): follows every link; the node must exist.
Stat(fs, ns, p) ==
    LET w == Walk(fs, ns, <<>>, p, TRUE, MaxSymlinks)
    IN  IF w.err # "" THEN w
        ELSE IF Exists(fs, w.path) THEN w
        ELSE [err |-> "ENOENT", path |-> w.path]

\* lstat(2): the last name is not followed.
Lstat(fs, ns, p) ==
    LET w == Walk(fs, ns, <<>>, p, FALSE, MaxSymlinks)
    IN  IF w.err # "" THEN w
        ELSE IF Exists(fs, w.path) THEN w
        ELSE [err |-> "ENOENT", path |-> w.path]

\* fs.existsSync: stat, with every error (not only ENOENT) answered false.
ExistsSync(fs, ns, p) == Stat(fs, ns, p).err = ""

IsDirectory(fs, ns, p) ==
    LET s == Stat(fs, ns, p) IN s.err = "" /\ KindAt(fs, s.path) = "dir"

\* mkdir(2) of one name whose parent was already made.
Mkdir1(fs, ns, p) ==
    LET w == Walk(fs, ns, <<>>, p, FALSE, MaxSymlinks)
    IN  IF w.err # "" THEN Fail(fs, w.err)
        ELSE IF ~Exists(fs, w.path) THEN Ok((w.path :> Dir) @@ fs)
        ELSE IF IsDirectory(fs, ns, p) THEN Ok(fs)
        ELSE Fail(fs, "EEXIST")

\* fs.mkdirSync(p, {recursive: true}).
RECURSIVE MkdirSync(_, _, _)
MkdirSync(fs, ns, p) ==
    IF p = <<>> THEN Ok(fs)
    ELSE LET r == MkdirSync(fs, ns, Parent(p))
         IN  IF r.err # "" THEN r ELSE Mkdir1(r.fs, ns, p)

\* fs.rmSync(p, {recursive: true, force: true}): the node the last name holds
\* is removed, a link without its destination, a directory with all below it.
RmSync(fs, ns, p) ==
    LET w == Walk(fs, ns, <<>>, p, FALSE, MaxSymlinks)
    IN  IF w.err = "ENOENT" THEN Ok(fs)
        ELSE IF w.err # "" THEN Fail(fs, w.err)
        ELSE IF w.path = <<>> \/ w.path \notin DOMAIN fs THEN Ok(fs)
        ELSE LET gone == IF Kind(fs[w.path]) = "dir"
                         THEN {q \in DOMAIN fs : IsPrefix(w.path, q)}
                         ELSE {w.path}
             IN  Ok([q \in DOMAIN fs \ gone |-> fs[q]])

\* Writing a regular file at p (open with O_CREAT | O_TRUNC follows links).
WriteFileSync(fs, ns, p, c) ==
    LET w == Walk(fs, ns, <<>>, p, TRUE, MaxSymlinks)
    IN  IF w.err # "" THEN Fail(fs, w.err)
        ELSE IF Exists(fs, w.path) /\ KindAt(fs, w.path) = "dir"
             THEN Fail(fs, "EISDIR")
        ELSE Ok((w.path :> File(c)) @@ fs)

\* fs.copyFileSync(src, dst): the bytes src resolves to, written at dst.
CopyFileSync(fs, ns, src, dst) ==
    LET s == Stat(fs, ns, src)
    IN  IF s.err # "" THEN Fail(fs, s.err)
        ELSE IF KindAt(fs, s.path) # "file" THEN Fail(fs, "EISDIR")
        ELSE WriteFileSync(fs, ns, dst, Content(fs[s.path]))

\* fs.symlinkSync(text, p): p must not exist, not even as a dangling link.
SymlinkSync(fs, ns, text, p) ==
    LET w == Walk(fs, ns, <<>>, p, FALSE, MaxSymlinks)
    IN  IF w.err # "" THEN Fail(fs, w.err)
        ELSE IF Exists(fs, w.path) THEN Fail(fs, "EEXIST")
        ELSE Ok((w.path :> Link(text, FALSE)) @@ fs)

\* fs.readdirSync(real directory d): the names directly below d.
Entries(fs, d) ==
    {q[Len(q)] : q \in {x \in DOMAIN fs : Len(x) = Len(d) + 1 /\ IsPrefix(d, x)}}

\* copyDirRecursive(src, dest), lines 104-118.  The entries and their types
\* are those readdirSync reports after dest was made; the first error ends
\* the copy and leaves what was copied so far.
RECURSIVE CopyDirRecursive(_, _, _, _)
RECURSIVE CopyEntries(_, _, _, _, _)
CopyDirRecursive(fs, ns, src, dest) ==
    LET m == MkdirSync(fs, ns, dest)
    IN  IF m.err # "" THEN m
        ELSE LET s == Stat(m.fs, ns, src)
             IN  IF s.err # "" THEN Fail(m.fs, s.err)
                 ELSE IF KindAt(m.fs, s.path) # "dir" THEN Fail(m.fs, "ENOTDIR")
                 ELSE CopyEntries(m.fs, ns, src, dest,
                        {[name |-> n,
                          isDirectory |-> Kind(m.fs[Append(s.path, n)]) = "dir"] :
                            n \in Entries(m.fs, s.path)})

CopyEntries(fs, ns, src, dest, todo) ==
    IF todo = {} THEN Ok(fs)
    ELSE LET entry    == CHOOSE e \in todo : TRUE
             srcPath  == PathJoin(src, <<entry.name>>)
             destPath == PathJoin(dest, <<entry.name>>)
             r == IF entry.isDirectory
                  THEN CopyDirRecursive(fs, ns, srcPath, destPath)
                  ELSE CopyFileSync(fs, ns, srcPath, destPath)
         IN  IF r.err # "" THEN r
             ELSE CopyEntries(r.fs, ns, src, dest, todo \ {entry})

\* ------------------------------------------------------------ the program

VARIABLES
    fs,               \* the file system
    noSearch,         \* directories this process may not search
    projectRoot,      \* where the repository is checked out
    deployMode,       \* args[0] || "link"
    customVaultPath,  \* the --vault-path= value, <<>> when not given
    envVaultPath,     \* process.env.VAULT_PATH, <<>> when not set
    pc,               \* where main() is
    vaultPath,        \* main's vaultPath
    pluginId,         \* main's pluginId
    exitCode,         \* the process's exit status, -1 while it runs
    ops,              \* the fs calls of this run that write, in order
    fs0,              \* the file system when this run started
    hist              \* the runs that ended: their status, plugin id and files

vars == <<fs, noSearch, projectRoot, deployMode, customVaultPath, envVaultPath,
          pc, vaultPath, pluginId, exitCode, ops, fs0, hist>>

distDir == PathJoin(projectRoot, <<"dist">>)

manifestPath == PathJoin(projectRoot, <<"manifest.json">>)

envPath == PathJoin(projectRoot, <<".env">>)

\* path.join(vaultPath, ".obsidian", "plugins", pluginId), lines 127-132 and
\* 188-193.
TargetPluginDir(vault, id) == PathJoin(vault, <<".obsidian", "plugins", id>>)

\* dotenv's reading of VAULT_PATH out of the text of .env.
DotenvVaultPath(text) ==
    IF text = "VAULT_PATH=/v" THEN <<"v">> ELSE <<>>

\* fs.readJsonSync of a manifest, then its id field.
ManifestParses(text) == text # "{"

ManifestId(text) ==
    IF text = "{\"id\":\"p\"}" THEN "p"
    ELSE IF text = "{\"id\":\"dist\"}" THEN "dist"
    ELSE ""

\* ------------------------------------------------------- the initial states

Empty == [q \in {} |-> Dir]

\* The directories from the root down to p, p included.
DirsTo(p) == [q \in {SubSeq(p, 1, i) : i \in 1..Len(p)} |-> Dir]

ProjectRoots ==
    { <<"w">>,                               \* a checkout outside the vault
      <<"v", ".obsidian", "plugins", "p">>,  \* a checkout in the plugin's folder
      <<"v", ".obsidian", "plugins">> }      \* a checkout that is the plugins folder

DistVariants == {"absent", "fresh", "used"}

DistFs(root, v) ==
    LET d == Append(root, "dist")
        fresh == (d :> Dir) @@ (Append(d, "main.js") :> File("js"))
                 @@ (Append(d, "styles") :> Dir)
                 @@ (Append(d, "assets") :> Dir)
                 @@ (d \o <<"assets", "a.css">> :> File("css"))
    IN  IF v = "absent" THEN Empty
        ELSE IF v = "fresh" THEN fresh
        ELSE fresh @@ (Append(d, ".hotreload") :> File(""))
                   @@ (Append(d, "data.json") :> File("old"))

ManifestVariants == {"p", "dist", "noId", "bad", "none", "distP"}

ManifestFs(root, m, dv) ==
    LET rootFile == Append(root, "manifest.json")
    IN  IF m = "p" THEN rootFile :> File("{\"id\":\"p\"}")
        ELSE IF m = "dist" THEN rootFile :> File("{\"id\":\"dist\"}")
        ELSE IF m = "noId" THEN rootFile :> File("{}")
        ELSE IF m = "bad" THEN rootFile :> File("{")
        ELSE IF m = "none" THEN Empty
        ELSE (rootFile :> File("{\"id\":\"dist\"}"))
             @@ (IF dv = "absent" THEN Empty
                 ELSE root \o <<"dist", "manifest.json">> :> File("{\"id\":\"p\"}"))

\* The identifier the manifests of an initial state give (p when none does).
InitId(m, dv) ==
    IF m = "dist" \/ (m = "distP" /\ dv = "absent") THEN "dist" ELSE "p"

EnvFs(root, e) ==
    IF e = "none" THEN Empty
    ELSE Append(root, ".env") :> File(IF e = "set" THEN "VAULT_PATH=/v" ELSE "")

\* What the vault holds at the plugin's place t before the first run.
InstalledVariants ==
    {"absent", "linkAbs", "linkRel", "linkElsewhere", "linkDangling",
     "dirData", "dirNoData", "file"}

UpToRoot(p) == [i \in 1..Len(p) |-> ".."]

InstalledFs(t, d, v) ==
    IF v = "absent" THEN Empty
    ELSE DirsTo(Parent(t)) @@
         ( IF v = "linkAbs" THEN t :> Link(d, FALSE)
           ELSE IF v = "linkRel" THEN t :> Link(UpToRoot(Parent(t)) \o d, TRUE)
           ELSE IF v = "linkElsewhere"
                THEN (t :> Link(<<"v", "other">>, FALSE)) @@ (<<"v", "other">> :> Dir)
           ELSE IF v = "linkDangling" THEN t :> Link(<<"v", "gone">>, FALSE)
           ELSE IF v = "dirData"
                THEN (t :> Dir) @@ (Append(t, "data.json") :> File("X"))
                     @@ (Append(t, "main.js") :> File("old js"))
                     @@ (Append(t, "old.css") :> File("old css"))
           ELSE IF v = "dirNoData"
                THEN (t :> Dir) @@ (Append(t, "main.js") :> File("old js"))
           ELSE t :> File("stray") )

\* The checkout's own files win where the plugin's place lies inside it.
InitFs(root, dv, m, e, iv) ==
    LET t == <<"v", ".obsidian", "plugins", InitId(m, dv)>>
    IN  DistFs(root, dv) @@ ManifestFs(root, m, dv) @@ EnvFs(root, e)
        @@ DirsTo(root) @@ InstalledFs(t, Append(root, "dist"), iv)
        @@ DirsTo(<<"v">>)

Modes == {"link", "copy", "sync"}

\* How the run learns the vault: the --vault-path value (<<>> when not given)
\* and the .env file ("none": no file, "set": it sets VAULT_PATH, "unset": it
\* does not).
VaultConfigs ==
    { [arg |-> <<"v">>,            env |-> "none"],
      [arg |-> <<"v", "x", "..">>, env |-> "set"],
      [arg |-> <<>>,               env |-> "set"],
      [arg |-> <<>>,               env |-> "unset"],
      [arg |-> <<>>,               env |-> "none"] }

Init ==
    \E root \in ProjectRoots, dv \in DistVariants, m \in ManifestVariants,
       vc \in VaultConfigs, iv \in InstalledVariants, denied \in BOOLEAN :
        /\ projectRoot = root
        /\ fs = InitFs(root, dv, m, vc.env, iv)
        /\ customVaultPath = vc.arg
        /\ denied => iv \in {"dirData", "linkDangling"}
        /\ noSearch = IF denied THEN {<<"v", ".obsidian", "plugins">>} ELSE {}
        /\ deployMode \in Modes
        /\ envVaultPath = <<>>
        /\ pc = "main"
        /\ vaultPath = <<>>
        /\ pluginId = ""
        /\ exitCode = -1
        /\ ops = <<>>
        /\ fs0 = fs
        /\ hist = <<>>

\* ----------------------------------------------------------------- actions

\* process.exit(code), and the end of main(), which leaves status 0.
Exit(code) == pc' = "done" /\ exitCode' = code

\* A sequence of fs calls: the call named op, with result r, is made when the
\* calls before it did not throw.
Start(f) == [fs |-> f, ops |-> <<>>, err |-> ""]

Then(s, op, r) ==
    IF s.err # "" THEN s
    ELSE [fs |-> r.fs, ops |-> Append(s.ops, op), err |-> r.err]

\* ensureDistReady(), lines 89-99, as main() calls it first (line 228); what
\* it throws reaches main's catch (lines 247-250).
EnsureDistReady ==
    /\ pc = "main"
    /\ LET hotreloadPath == PathJoin(distDir, <<".hotreload">>)
           s1 == IF ~ExistsSync(fs, noSearch, distDir)
                 THEN Then(Start(fs), "mkdirSync dist",
                           MkdirSync(fs, noSearch, distDir))
                 ELSE Start(fs)
           s2 == IF s1.err = "" /\ ~ExistsSync(s1.fs, noSearch, hotreloadPath)
                 THEN Then(s1, "writeFileSync .hotreload",
                           WriteFileSync(s1.fs, noSearch, hotreloadPath, ""))
                 ELSE s1
       IN  /\ fs' = s2.fs
           /\ ops' = ops \o s2.ops
           /\ IF s2.err # "" THEN Exit(1)
              ELSE pc' = "loadVaultPath" /\ UNCHANGED exitCode
    /\ UNCHANGED <<noSearch, projectRoot, deployMode, customVaultPath,
                   envVaultPath, vaultPath, pluginId, fs0, hist>>

\* loadVaultPath(), lines 34-55.
LoadVaultPath ==
    /\ pc = "loadVaultPath"
    /\ IF customVaultPath # <<>>
       THEN /\ vaultPath' = PathResolve(customVaultPath)
            /\ pc' = "getPluginId"
            /\ UNCHANGED <<exitCode, envVaultPath>>
       ELSE IF ~ExistsSync(fs, noSearch, envPath)
       THEN Exit(0) /\ UNCHANGED <<vaultPath, envVaultPath>>
       ELSE LET st == Stat(fs, noSearch, envPath)
                read == IF KindAt(fs, st.path) = "file"
                        THEN DotenvVaultPath(Content(fs[st.path]))
                        ELSE <<>>
                value == IF envVaultPath # <<>> THEN envVaultPath ELSE read
            IN  /\ envVaultPath' = value
                /\ IF value = <<>>
                   THEN Exit(1) /\ UNCHANGED vaultPath
                   ELSE /\ vaultPath' = PathResolve(value)
                        /\ pc' = "getPluginId"
                        /\ UNCHANGED exitCode
    /\ UNCHANGED <<fs, noSearch, projectRoot, deployMode, customVaultPath,
                   pluginId, ops, fs0, hist>>

\* getPluginId(), lines 60-84.
GetPluginId ==
    /\ pc = "getPluginId"
    /\ LET distManifestPath == PathJoin(distDir, <<"manifest.json">>)
           manifestFile == IF ExistsSync(fs, noSearch, distManifestPath)
                           THEN distManifestPath
                           ELSE manifestPath
           st == Stat(fs, noSearch, manifestFile)
       IN  IF ~ExistsSync(fs, noSearch, manifestFile)
           THEN Exit(1) /\ UNCHANGED pluginId
           ELSE IF \/ KindAt(fs, st.path) # "file"
                   \/ ~ManifestParses(Content(fs[st.path]))
                   \/ ManifestId(Content(fs[st.path])) = ""
           THEN Exit(1) /\ UNCHANGED pluginId
           ELSE /\ pluginId' = ManifestId(Content(fs[st.path]))
                /\ pc' = "switch"
                /\ UNCHANGED exitCode
    /\ UNCHANGED <<fs, noSearch, projectRoot, deployMode, customVaultPath,
                   envVaultPath, vaultPath, ops, fs0, hist>>

\* The self-target test with the wrong operand: the target is compared with
\* the directory that holds dist instead of with dist.
SameLocationOfParent(a, b) == PathResolve(a) = PathResolve(Parent(b))

\* The self-target test of lines 135 and 196.
SameLocation(a, b) == PathResolve(a) = PathResolve(b)

\* Line 141 and line 208: whether deployLink and deployCopy take the target
\* path to hold something.
TargetExists(f, ns, target) == ExistsSync(f, ns, target)

\* Lines 144-154: the target is a link whose text, resolved from the target's
\* directory, is the dist directory.
LinkAlreadyExists(f, ns, target, dist) ==
    LET st == Lstat(f, ns, target)
    IN  /\ st.err = ""
        /\ KindAt(f, st.path) = "link"
        /\ LET linkTarget == Dest(f[st.path])
               resolvedLink == IF IsRel(f[st.path])
                               THEN PathResolve(Parent(target) \o linkTarget)
                               ELSE PathResolve(linkTarget)
           IN  resolvedLink = PathResolve(dist)

\* Lines 155-163: the data.json of a target directory is copied into dist.
BackupDataJson(s, ns, target, dist) ==
    LET st == Lstat(s.fs, ns, target)
        dataJsonPath == PathJoin(target, <<"data.json">>)
        backupPath == PathJoin(dist, <<"data.json">>)
    IN  IF /\ st.err = ""
           /\ KindAt(s.fs, st.path) = "dir"
           /\ ExistsSync(s.fs, ns, dataJsonPath)
        THEN Then(s, "copyFileSync data.json",
                  CopyFileSync(s.fs, ns, dataJsonPath, backupPath))
        ELSE s

\* Lines 141-180 of deployLink, after the self-target test: the calls made,
\* the files they leave, and the first error thrown.
ReconcileLink(f, ns, target, dist) ==
    IF TargetExists(f, ns, target) /\ LinkAlreadyExists(f, ns, target, dist)
    THEN Start(f)
    ELSE LET s1 == IF TargetExists(f, ns, target)
                   THEN LET b == BackupDataJson(Start(f), ns, target, dist)
                        IN  Then(b, "rmSync target", RmSync(b.fs, ns, target))
                   ELSE Start(f)
             s2 == Then(s1, "mkdirSync parent",
                        MkdirSync(s1.fs, ns, Parent(target)))
         IN  Then(s2, "symlinkSync target",
                  SymlinkSync(s2.fs, ns, dist, target))

\* deployLink(vaultPath, pluginId), lines 126-181, reached by the switch of
\* line 236.  Every error ends the run with status 1 (lines 177-180, 247-250).
DeployLink ==
    /\ pc = "switch"
    /\ deployMode = "link"
    /\ LET targetPluginDir == TargetPluginDir(vaultPath, pluginId)
       IN  IF SameLocation(targetPluginDir, distDir)
           THEN Exit(0) /\ UNCHANGED <<fs, ops>>
           ELSE LET r == ReconcileLink(fs, noSearch, targetPluginDir, distDir)
                IN  /\ fs' = r.fs
                    /\ ops' = ops \o r.ops
                    /\ Exit(IF r.err = "" THEN 0 ELSE 1)
    /\ UNCHANGED <<noSearch, projectRoot, deployMode, customVaultPath,
                   envVaultPath, vaultPath, pluginId, fs0, hist>>

\* Lines 201-220 of deployCopy, after the self-target test.
ReconcileCopy(f, ns, target, dist) ==
    IF ~ExistsSync(f, ns, dist)
    THEN [fs |-> f, ops |-> <<>>, err |-> "dist missing"]
    ELSE LET s1 == IF TargetExists(f, ns, target)
                   THEN Then(Start(f), "rmSync target", RmSync(f, ns, target))
                   ELSE Start(f)
             s2 == Then(s1, "copyDirRecursive",
                        CopyDirRecursive(s1.fs, ns, dist, target))
         IN  IF s2.err = "" /\ ~IsDirectory(s2.fs, ns, dist)
             THEN [s2 EXCEPT !.err = "ENOTDIR"]
             ELSE s2

\* deployCopy(vaultPath, pluginId), lines 187-221, reached by the switch of
\* line 239.
DeployCopy ==
    /\ pc = "switch"
    /\ deployMode = "copy"
    /\ LET targetPluginDir == TargetPluginDir(vaultPath, pluginId)
       IN  IF SameLocation(targetPluginDir, distDir)
           THEN Exit(0) /\ UNCHANGED <<fs, ops>>
           ELSE LET r == ReconcileCopy(fs, noSearch, targetPluginDir, distDir)
                IN  /\ fs' = r.fs
                    /\ ops' = ops \o r.ops
                    /\ Exit(IF r.err = "" THEN 0 ELSE 1)
    /\ UNCHANGED <<noSearch, projectRoot, deployMode, customVaultPath,
                   envVaultPath, vaultPath, pluginId, fs0, hist>>

\* The default branch of the switch, lines 242-245.
UnknownMode ==
    /\ pc = "switch"
    /\ deployMode \notin {"link", "copy"}
    /\ Exit(1)
    /\ UNCHANGED <<fs, noSearch, projectRoot, deployMode, customVaultPath,
                   envVaultPath, vaultPath, pluginId, ops, fs0, hist>>

\* The script is invoked again with the same arguments: a new process, whose
\* environment and locals start afresh, on the files the last run left.
Rerun ==
    /\ pc = "done"
    /\ Len(hist) + 1 < MaxRuns
    /\ hist' = Append(hist, [exitCode |-> exitCode, fs |-> fs,
                             pluginId |-> pluginId])
    /\ pc' = "main"
    /\ exitCode' = -1
    /\ envVaultPath' = <<>>
    /\ vaultPath' = <<>>
    /\ pluginId' = ""
    /\ ops' = <<>>
    /\ fs0' = fs
    /\ UNCHANGED <<fs, noSearch, projectRoot, deployMode, customVaultPath>>

Next ==
    \/ EnsureDistReady
    \/ LoadVaultPath
    \/ GetPluginId
    \/ DeployLink
    \/ DeployCopy
    \/ UnknownMode
    \/ Rerun

Spec == Init /\ [][Next]_vars

\* Every node but the root lies in a directory.
WellFormed ==
    \A q \in DOMAIN fs : Parent(q) = <<>> \/
        (Parent(q) \in DOMAIN fs /\ Kind(fs[Parent(q)]) = "dir")

\* ------------------------------------------------- vocabulary of the claims

\* What is really on disk, whatever this process may search.
Real == {}

InOps(op) == \E i \in 1..Len(ops) : ops[i] = op

Before(a, b) == \E i, j \in 1..Len(ops) : i < j /\ ops[i] = a /\ ops[j] = b

ReconcileOps ==
    {"copyFileSync data.json", "rmSync target", "mkdirSync parent",
     "symlinkSync target", "copyDirRecursive"}

Done == pc = "done"

\* The run got its vault path and plugin id and reached the switch.
Dispatched == Done /\ pluginId # ""

Target == TargetPluginDir(vaultPath, pluginId)

\* The target path is the dist directory itself.
SelfTarget == Target = distDir

\* The five classes of section 4.2, read off the disk itself.
Classify(f, target, dist) ==
    LET st == Lstat(f, Real, target)
    IN  IF st.err # "" THEN "Absent"
        ELSE IF KindAt(f, st.path) = "link"
             THEN IF LinkAlreadyExists(f, Real, target, dist)
                  THEN "LinkToSource" ELSE "LinkElsewhere"
        ELSE IF KindAt(f, st.path) = "dir" THEN "Directory"
        ELSE "Other"

FileHolds(f, p, c) ==
    p \in DOMAIN f /\ Kind(f[p]) = "file" /\ Content(f[p]) = c

\* The tree below the real directory d, by relative path.
TreeAt(f, d) ==
    [r \in {SubSeq(q, Len(d) + 1, Len(q)) :
              q \in {x \in DOMAIN f : IsPrefix(d, x) /\ x # d}}
        |-> f[d \o r]]

IsRealDir(f, p) == p \in DOMAIN f /\ Kind(f[p]) = "dir"

HotreloadPath == PathJoin(distDir, <<".hotreload">>)

\* Nothing the run found was changed or removed, and nothing was added but
\* what ensureDistReady makes: the dist directory and an empty .hotreload.
OnlyEnsured ==
    /\ \A q \in DOMAIN fs0 : q \in DOMAIN fs /\ fs[q] = fs0[q]
    /\ \A q \in DOMAIN fs \ DOMAIN fs0 :
          \/ q = Stat(fs, Real, distDir).path /\ fs[q] = Dir
          \/ q = Stat(fs, Real, HotreloadPath).path /\ fs[q] = File("")

NoReconcileOps == \A i \in 1..Len(ops) : ops[i] \notin ReconcileOps

\* The goal state of the mode (sections 4.3 and 4.4).
Goal ==
    IF deployMode = "link"
    THEN Classify(fs, Target, distDir) = "LinkToSource"
    ELSE IsRealDir(fs, Target)

\* The text of the manifest getPluginId reads, "{" when there is none.
ManifestText(f) ==
    LET dm   == PathJoin(distDir, <<"manifest.json">>)
        file == IF ExistsSync(f, noSearch, dm) THEN dm ELSE manifestPath
        st   == Stat(f, noSearch, file)
    IN  IF st.err # "" \/ KindAt(f, st.path) # "file" THEN "{"
        ELSE Content(f[st.path])

InvalidMode == deployMode \notin {"link", "copy"}

BadDescriptor ==
    \/ ~ManifestParses(ManifestText(fs0))
    \/ ManifestId(ManifestText(fs0)) = ""

\* No --vault-path and no .env: the run is to be skipped.
StoreMissing == customVaultPath = <<>> /\ ~ExistsSync(fs0, noSearch, envPath)

\* No --vault-path, and a .env that does not set VAULT_PATH.
ValueMissing ==
    /\ customVaultPath = <<>>
    /\ ExistsSync(fs0, noSearch, envPath)
    /\ LET st == Stat(fs0, noSearch, envPath)
       IN  \/ KindAt(fs0, st.path) # "file"
           \/ DotenvVaultPath(Content(fs0[st.path])) = <<>>

Fatal == InvalidMode \/ BadDescriptor \/ ValueMissing

\* Examining the target fails, and not because nothing is there.
InspectError(f) == Lstat(f, noSearch, Target).err \notin {"", "ENOENT"}

\* -------------------------------------------------------------- the claims

\* C1 (data preservation).  A link-mode run that reaches deployLink, whose
\* target is not dist itself, can be examined, and is a real directory holding
\* data.json with content X, ends with dist/data.json holding X and the target
\* a link to dist.  Refuted: when the target directory contains dist (the
\* checkout is the plugin's folder), rmSync removes dist and the backup in it.
C1_DataPreservation ==
    ( /\ Dispatched /\ deployMode = "link" /\ ~SelfTarget /\ noSearch = {}
      /\ Classify(fs0, Target, distDir) = "Directory"
      /\ FileHolds(fs0, Append(Target, "data.json"), "X") )
    => ( /\ FileHolds(fs, Append(distDir, "data.json"), "X")
         /\ Classify(fs, Target, distDir) = "LinkToSource" )

\* C2 (convergence from a stale target).  A link-mode run whose target is a
\* link that does not resolve to dist, its destination existing or not, or a
\* regular file, removes it, then creates the link, and ends with status 0 and
\* the target a link to dist.  Refuted by a link whose destination is missing:
\* existsSync answers false, nothing is removed, symlinkSync fails (EEXIST).
C2_StaleTargetConverges ==
    ( /\ Dispatched /\ deployMode = "link" /\ ~SelfTarget /\ noSearch = {}
      /\ Classify(fs0, Target, distDir) \in {"LinkElsewhere", "Other"} )
    => ( /\ exitCode = 0
         /\ Classify(fs, Target, distDir) = "LinkToSource"
         /\ Before("rmSync target", "symlinkSync target") )

\* C3 (idempotence of link mode).  When a link-mode run that reached
\* deployLink is followed by a run with the same arguments, the second run
\* ends with status 0, leaves the files as the first run left them, and
\* neither removes nor creates the link.  Refuted where the first run fails
\* on a dangling link (C2) or removes the checkout with the target (C10).
C3_LinkIdempotent ==
    ( /\ Done /\ Len(hist) >= 1 /\ deployMode = "link" /\ noSearch = {}
      /\ hist[Len(hist)].pluginId # "" )
    => ( /\ fs = hist[Len(hist)].fs
         /\ exitCode = 0
         /\ ~InOps("rmSync target")
         /\ ~InOps("symlinkSync target") )

\* C4 (copy completeness).  A copy-mode run that reaches deployCopy, whatever
\* the target path held before (nothing, a link, a directory, a regular file),
\* ends with status 0 and the target a real directory whose tree (relative
\* paths, kinds, contents) is that of dist.  Stated for a target that does not
\* contain dist.  Refuted by a target link whose destination is missing.
C4_CopyComplete ==
    ( /\ Dispatched /\ deployMode = "copy" /\ ~SelfTarget /\ noSearch = {}
      /\ ~IsPrefix(Target, distDir) )
    => ( /\ exitCode = 0
         /\ IsRealDir(fs, Target)
         /\ IsRealDir(fs, distDir)
         /\ TreeAt(fs, Target) = TreeAt(fs, distDir) )

\* C5 (self-target guard), as claimed.  When the target path is the dist
\* directory, the whole run changes nothing on disk and ends with status 0.
C5_SelfTargetNoMutation ==
    (Dispatched /\ deployMode \in {"link", "copy"} /\ SelfTarget)
    => (fs = fs0 /\ exitCode = 0)

\* C5, amended.  When the target path is the dist directory, the run ends with
\* status 0 and changes nothing on disk except what ensureDistReady does
\* before the guard is reached: it makes the dist directory and an empty
\* dist/.hotreload where they are missing.
C5_SelfTargetOnlyEnsuresDist ==
    (Dispatched /\ deployMode \in {"link", "copy"} /\ SelfTarget)
    => (exitCode = 0 /\ OnlyEnsured)

\* C5's case: a self-target run ended after ensureDistReady wrote .hotreload.
C5_SelfTargetSentinelWritten ==
    /\ Dispatched /\ deployMode \in {"link", "copy"} /\ SelfTarget
    /\ InOps("writeFileSync .hotreload")
    /\ exitCode = 0
    /\ fs # fs0

\* C6 (unknown mode).  A run with a mode other than link and copy ends with
\* status 1, having changed nothing on disk (what ensureDistReady makes is not
\* held against it here).  Refuted: without --vault-path and without .env the
\* run ends with status 0 before the mode is looked at.
C6_UnknownModeFails ==
    (Done /\ InvalidMode) => (exitCode = 1 /\ OnlyEnsured)

\* C7 (missing artifact in copy mode).  A copy-mode run that reaches
\* deployCopy and was started while dist did not exist ends with status 1
\* without removing the target and without copying.  Refuted: ensureDistReady
\* has made dist by then, so the run removes the target and copies.
C7_MissingArtifactFails ==
    ( /\ Dispatched /\ deployMode = "copy" /\ ~SelfTarget
      /\ ~Exists(fs0, distDir) )
    => ( /\ exitCode = 1
         /\ ~InOps("rmSync target")
         /\ ~InOps("copyDirRecursive") )

\* C8 (exit-status mapping).  A run ends with status 0 or 1; with 1 whenever
\* the mode is invalid, the descriptor is missing, unparseable or without id,
\* or an existing .env lacks the value, in whatever combination; with 0 only
\* when the run was skipped (no store, or self-target) or reached its goal.
\* Refuted: without --vault-path and .env the run ends with 0 whatever else.
C8_ExitStatusMapping ==
    Done => ( /\ exitCode \in {0, 1}
              /\ Fatal => exitCode = 1
              /\ exitCode = 0 =>
                    (StoreMissing \/ (Dispatched /\ (SelfTarget \/ Goal))) )

\* C9 (inspection errors are fatal).  A link- or copy-mode run whose
\* examination of the target fails for another reason than "does not exist"
\* (here EACCES: the directory above the target cannot be searched) does not
\* take the target to be absent: it ends with status 1 without attempting any
\* reconciliation call.
C9_InspectionErrorsFatal ==
    ( /\ Dispatched /\ deployMode \in {"link", "copy"} /\ ~SelfTarget
      /\ InspectError(fs0) )
    => (exitCode = 1 /\ NoReconcileOps)

\* C10 (the source artifact is never destroyed).  After a link- or copy-mode
\* run that passed the self-target guard, every node dist held when the run
\* started is still there and unchanged, save data.json, which the backup may
\* overwrite.  Refuted by a target that is an ancestor of dist.
C10_SourceNeverDestroyed ==
    (Dispatched /\ deployMode \in {"link", "copy"} /\ ~SelfTarget)
    => \A q \in DOMAIN fs0 : IsPrefix(distDir, q) =>
          /\ q \in DOMAIN fs
          /\ fs[q] = fs0[q] \/ q = PathJoin(distDir, <<"data.json">>)

\* ------------------------------------------- where the refuted claims hold
\* Each formula below is the claim above with the inputs of the defect set
\* aside; TLC finds each to be an invariant of Spec.

\* The target directory does not contain dist.
TargetOutsideDist == ~IsPrefix(Target, distDir)

\* C1, C10 and C4 away from a target that contains dist (and, for C4, from a
\* target link whose destination is missing).
C1_HoldsOutsideDist ==
    ( /\ Dispatched /\ deployMode = "link" /\ ~SelfTarget /\ noSearch = {}
      /\ TargetOutsideDist
      /\ Classify(fs0, Target, distDir) = "Directory"
      /\ FileHolds(fs0, Append(Target, "data.json"), "X") )
    => ( /\ FileHolds(fs, Append(distDir, "data.json"), "X")
         /\ Classify(fs, Target, distDir) = "LinkToSource" )

C10_HoldsOutsideDist ==
    ( /\ Dispatched /\ deployMode \in {"link", "copy"} /\ ~SelfTarget
      /\ TargetOutsideDist )
    => \A q \in DOMAIN fs0 : IsPrefix(distDir, q) =>
          /\ q \in DOMAIN fs
          /\ fs[q] = fs0[q] \/ q = PathJoin(distDir, <<"data.json">>)

C4_HoldsWithoutDanglingLink ==
    ( /\ Dispatched /\ deployMode = "copy" /\ ~SelfTarget /\ noSearch = {}
      /\ TargetOutsideDist
      /\ Lstat(fs0, Real, Target).err = "" => ExistsSync(fs0, Real, Target) )
    => ( /\ exitCode = 0
         /\ IsRealDir(fs, Target)
         /\ IsRealDir(fs, distDir)
         /\ TreeAt(fs, Target) = TreeAt(fs, distDir) )

\* C2 for a stale target whose destination exists, or that is a regular file.
C2_HoldsWithoutDanglingLink ==
    ( /\ Dispatched /\ deployMode = "link" /\ ~SelfTarget /\ noSearch = {}
      /\ Classify(fs0, Target, distDir) \in {"LinkElsewhere", "Other"}
      /\ ExistsSync(fs0, Real, Target) )
    => ( /\ exitCode = 0
         /\ Classify(fs, Target, distDir) = "LinkToSource"
         /\ Before("rmSync target", "symlinkSync target") )

\* C3 after a first run that ended with status 0 and left dist in place.
C3_HoldsAfterSuccess ==
    ( /\ Done /\ Len(hist) >= 1 /\ deployMode = "link" /\ noSearch = {}
      /\ hist[Len(hist)].pluginId # ""
      /\ hist[Len(hist)].exitCode = 0
      /\ ExistsSync(fs, Real, distDir) )
    => ( /\ fs = hist[Len(hist)].fs
         /\ exitCode = 0
         /\ ~InOps("rmSync target")
         /\ ~InOps("symlinkSync target") )

\* C6 and C8 when --vault-path is given or .env exists.
C6_HoldsWithStore ==
    (Done /\ InvalidMode /\ ~StoreMissing) => (exitCode = 1 /\ OnlyEnsured)

C8_HoldsWithStore ==
    Done => ( /\ exitCode \in {0, 1}
              /\ (Fatal /\ ~StoreMissing) => exitCode = 1
              /\ exitCode = 0 =>
                    (StoreMissing \/ (Dispatched /\ (SelfTarget \/ Goal))) )

====
